---- MODULE Spec2Model ----
(***************************************************************************)
(* Model of the wildfire dashboard's preprocessing pipeline                *)
(* (src/utils/preprocessing.py) and of the dashboard script (src/app.py):  *)
(* its adaptive area formatter, its cached load, its sidebar filters and   *)
(* its refresh button.                                                     *)
(*                                                                         *)
(* A table cell, and every derived value, is a record [k, n, d, s]:        *)
(*   k = "na"    a missing value (NaN, None and NaT alike)                 *)
(*   k = "num"   the number n / d (d > 0)                                  *)
(*   k = "str"   the text s (a cell that does not parse as a number)       *)
(*   k = "date"  a datetime.date, n days after 1970-01-01                  *)
(*   k = "ts"    a pandas Timestamp at midnight, n days after 1970-01-01   *)
(* Floating-point arithmetic is modelled exactly (as rationals).  A data   *)
(* frame is [cols, rows]: the set of its column names and the sequence of  *)
(* its rows, each a function from cols to values.                          *)
(***************************************************************************)
EXTENDS Integers, Sequences, FiniteSets, TLC

VARIABLES
    source,        \* the primary data file data/fires_light.csv
    reference,     \* the state reference file data/state_names.csv
    tz,            \* the host's local UTC offset, in hours
    result,        \* what load_and_preprocess_data last returned on source
    previous,      \* what its invocation before the last returned
    resultNoCont,  \* what it returned on source without its CONT_DATE column
    area,          \* the argument handed to format_area
    shown,         \* what format_area returned for it
    cache,         \* the entry st.cache_data holds for load_cached_data
    invocations,   \* how many times the dashboard has run load_and_preprocess_data
    refreshes,     \* how many times the refresh button has been clicked
    runs,          \* how many times the script has run
    page,          \* the section chosen in the sidebar
    selected_years,   \* the years chosen in the sidebar
    selected_states,  \* the states chosen in the sidebar
    view           \* what the last run of the script rendered, and its frames

files == <<source, reference, tz>>
pipelineVars == <<result, previous, resultNoCont>>
formatVars == <<area, shown>>
appVars == <<cache, invocations, refreshes, runs, page, selected_years, selected_states, view>>
vars == <<files, pipelineVars, formatVars, appVars>>

-----------------------------------------------------------------------------
(* Values *)

NA == [k |-> "na", n |-> 0, d |-> 1, s |-> ""]
Rat(x, y) == [k |-> "num", n |-> x, d |-> y, s |-> ""]
Num(x) == Rat(x, 1)
Str(x) == [k |-> "str", n |-> 0, d |-> 1, s |-> x]
PyDate(z) == [k |-> "date", n |-> z, d |-> 1, s |-> ""]
Timestamp(z) == [k |-> "ts", n |-> z, d |-> 1, s |-> ""]

isna(v) == v.k = "na"
IsDate(v) == v.k \in {"date", "ts"}

(* Data frames *)

EmptyDataFrame == [cols |-> {}, rows |-> <<>>]

SetCol(df, c, vals) ==
    [cols |-> df.cols \cup {c},
     rows |-> [i \in 1..Len(df.rows) |->
                 [x \in df.cols \cup {c} |->
                     IF x = c THEN vals[i] ELSE df.rows[i][x]]]]

DropCol(df, c) ==
    [cols |-> df.cols \ {c},
     rows |-> [i \in 1..Len(df.rows) |-> [x \in df.cols \ {c} |-> df.rows[i][x]]]]

\* The value of column c on row i; a column the frame lacks is absent on every row.
Field(df, i, c) == IF c \in df.cols THEN df.rows[i][c] ELSE NA

-----------------------------------------------------------------------------
(* Calendar *)

HoursPerDay == 24
\* datetime.fromtimestamp accepts the years 1..9999 only.
MinDatetimeDay == -719162
MaxDatetimeDay == 2932896
\* pandas' nanosecond Timestamp spans 1677-09-21 00:12:43 .. 2262-04-11 23:47:16.
MinTimestampDay == -106751
MaxTimestampDay == 106751

\* The proleptic Gregorian date of day z (days after 1970-01-01).
civil_from_days(z) ==
    LET zz  == z + 719468
        era == zz \div 146097
        doe == zz - era * 146097
        yoe == (doe - doe \div 1460 + doe \div 36524 - doe \div 146096) \div 365
        doy == doe - (365 * yoe + yoe \div 4 - yoe \div 100)
        mp  == (5 * doy + 2) \div 153
        dd  == doy - (153 * mp + 2) \div 5 + 1
        mm  == IF mp < 10 THEN mp + 3 ELSE mp - 9
    IN  [year |-> yoe + era * 400 + (IF mm <= 2 THEN 1 ELSE 0), month |-> mm, day |-> dd]

\* Monday = 0; 1970-01-01 was a Thursday.
dayofweek(z) == (z + 3) % 7

-----------------------------------------------------------------------------
(* preprocessing.py *)

\* J1970 = 2440587.5 days, in hours.
J1970Hours == 58574100

\* julian_to_date: None for a missing value, for a value float() rejects and for
\* a timestamp datetime.fromtimestamp rejects; otherwise the local datetime, held
\* as its hours after 1970-01-01T00:00 local time (the timestamp is kept in
\* hours, the resolution of the encodings considered, instead of seconds).
julian_to_date(julian_number, offset) ==
    IF isna(julian_number) THEN NA
    ELSE IF julian_number.k # "num" THEN NA
    ELSE LET timestamp == (julian_number.n * HoursPerDay
                             - J1970Hours * julian_number.d) \div julian_number.d
             local == timestamp + offset
             day == local \div HoursPerDay
         IN  IF day < MinDatetimeDay \/ day > MaxDatetimeDay THEN NA
             ELSE Num(local)

\* The lambda of the column apply: julian_to_date(x).date() or None.
DecodeCell(x, offset) ==
    LET dt == julian_to_date(x, offset)
    IN  IF ~isna(x) /\ ~isna(dt) THEN PyDate(dt.n \div HoursPerDay) ELSE NA

\* pd.to_datetime on a column of dates: raises OutOfBoundsDatetime when one of
\* them lies outside the nanosecond Timestamp range.
to_datetime_raises(vals) ==
    \E i \in 1..Len(vals) :
        vals[i].k = "date" /\ (vals[i].n < MinTimestampDay \/ vals[i].n > MaxTimestampDay)

to_datetime(vals) ==
    [i \in 1..Len(vals) |-> IF vals[i].k = "date" THEN Timestamp(vals[i].n) ELSE NA]

calculate_duration(discovery_date, cont_date) ==
    IF isna(discovery_date) \/ isna(cont_date) THEN NA
    ELSE IF ~IsDate(discovery_date) \/ ~IsDate(cont_date) THEN NA
    ELSE Num(cont_date.n - discovery_date.n)

convert_acres_to_m2(acres_value) ==
    IF isna(acres_value) THEN NA
    ELSE Rat(acres_value.n * 404686, acres_value.d * 100)

\* Whether convert_acres_to_m2 raises: a text cell times a float is a TypeError.
convert_acres_raises(acres_value) == acres_value.k = "str"

DateColumnOf(date_col) ==
    IF date_col = "DISCOVERY_DATE" THEN "DATEGREG_DISCOVERY" ELSE "DATEGREG_CONT"

\* The two assignments of step 1 to the new column: the decoded dates, then
\* pd.to_datetime of them.  A step yields the frame it leaves and whether it raised.
AssignDates(df, new_col, decoded) ==
    IF to_datetime_raises(decoded)
    THEN [df |-> SetCol(df, new_col, decoded), raised |-> TRUE]
    ELSE [df |-> SetCol(SetCol(df, new_col, decoded), new_col, to_datetime(decoded)),
          raised |-> FALSE]

\* Step 1 for one column.
ConvertDates(df, date_col, offset) ==
    IF date_col \notin df.cols THEN [df |-> df, raised |-> FALSE]
    ELSE AssignDates(df, DateColumnOf(date_col),
                     [i \in 1..Len(df.rows) |-> DecodeCell(df.rows[i][date_col], offset)])

\* The sanitation pass: a duration below 0 or above 365 is reset to missing.
CleanDuration(v) ==
    IF isna(v) THEN NA
    ELSE IF v.n < 0 THEN NA
    ELSE IF v.n > 365 THEN NA
    ELSE v

\* Step 2.
ComputeDuration(df) ==
    IF ~({"DATEGREG_DISCOVERY", "DATEGREG_CONT"} \subseteq df.cols)
    THEN [df |-> df, raised |-> FALSE]
    ELSE [df |-> SetCol(df, "DURATION_DAYS",
                    [i \in 1..Len(df.rows) |->
                        CleanDuration(calculate_duration(df.rows[i]["DATEGREG_DISCOVERY"],
                                                         df.rows[i]["DATEGREG_CONT"]))]),
          raised |-> FALSE]

\* The dictionary, were it keyed by calendar quarters.
SeasonOfQuarter(month) ==
    IF isna(month) THEN NA
    ELSE IF month.n \in {1, 2, 3} THEN Str("Winter")
    ELSE IF month.n \in {4, 5, 6} THEN Str("Spring")
    ELSE IF month.n \in {7, 8, 9} THEN Str("Summer")
    ELSE IF month.n \in {10, 11, 12} THEN Str("Fall")
    ELSE NA

\* The month -> season dictionary; a key it lacks maps to missing.
SeasonOf(month) ==
    IF isna(month) THEN NA
    ELSE IF month.n \in {12, 1, 2} THEN Str("Winter")
    ELSE IF month.n \in {3, 4, 5} THEN Str("Spring")
    ELSE IF month.n \in {6, 7, 8} THEN Str("Summer")
    ELSE IF month.n \in {9, 10, 11} THEN Str("Fall")
    ELSE NA

MonthOf(v) == IF isna(v) THEN NA ELSE Num(civil_from_days(v.n).month)
DayOf(v) == IF isna(v) THEN NA ELSE Num(civil_from_days(v.n).day)
DayOfWeekOf(v) == IF isna(v) THEN NA ELSE Num(dayofweek(v.n))

\* Step 3.
TemporalFeatures(df) ==
    IF "DATEGREG_DISCOVERY" \notin df.cols THEN [df |-> df, raised |-> FALSE]
    ELSE LET n == Len(df.rows)
             d1 == SetCol(df, "MONTH",
                          [i \in 1..n |-> MonthOf(df.rows[i]["DATEGREG_DISCOVERY"])])
             d2 == SetCol(d1, "DAY",
                          [i \in 1..n |-> DayOf(df.rows[i]["DATEGREG_DISCOVERY"])])
             d3 == SetCol(d2, "DAY_OF_WEEK",
                          [i \in 1..n |-> DayOfWeekOf(df.rows[i]["DATEGREG_DISCOVERY"])])
         IN  [df |-> SetCol(d3, "DISCOVERY_SEASON",
                            [i \in 1..n |-> SeasonOf(d3.rows[i]["MONTH"])]),
              raised |-> FALSE]

Hectares(m2) == IF isna(m2) THEN NA ELSE Rat(m2.n, m2.d * 10000)

\* FIRE_SIZE_M2 / 10000 assigned to FIRE_SIZE_HECTARES.
AssignHectares(df) ==
    SetCol(df, "FIRE_SIZE_HECTARES",
           [i \in 1..Len(df.rows) |-> Hectares(df.rows[i]["FIRE_SIZE_M2"])])

\* Step 4.
ConvertAreas(df) ==
    IF "FIRE_SIZE" \notin df.cols THEN [df |-> df, raised |-> FALSE]
    ELSE IF \E i \in 1..Len(df.rows) : convert_acres_raises(df.rows[i]["FIRE_SIZE"])
    THEN [df |-> df, raised |-> TRUE]
    ELSE [df |-> AssignHectares(
                    SetCol(df, "FIRE_SIZE_M2",
                           [i \in 1..Len(df.rows) |->
                               convert_acres_to_m2(df.rows[i]["FIRE_SIZE"])])),
          raised |-> FALSE]

\* A step runs only if none before it raised.
ThenConvertDates(prev, date_col, offset) ==
    IF prev.raised THEN prev ELSE ConvertDates(prev.df, date_col, offset)
ThenComputeDuration(prev) == IF prev.raised THEN prev ELSE ComputeDuration(prev.df)
ThenTemporalFeatures(prev) == IF prev.raised THEN prev ELSE TemporalFeatures(prev.df)
ThenConvertAreas(prev) == IF prev.raised THEN prev ELSE ConvertAreas(prev.df)

\* The try block of preprocess_data: the four steps in order, stopping at the
\* first that raises.
PreprocessSteps(df, offset) ==
    ThenConvertAreas(
        ThenTemporalFeatures(
            ThenComputeDuration(
                ThenConvertDates(ConvertDates(df, "DISCOVERY_DATE", offset),
                                 "CONT_DATE", offset))))

PreprocessError == "Erreur dans preprocess_data"
GlobalError == "Erreur globale"
StateNamesError == "Erreur de chargement des noms d'Etats"

\* The except clause of preprocess_data, were it to let the failure go on.
PreprocessHandlerReraises(steps) ==
    [df |-> steps.df,
     raised |-> steps.raised,
     errors |-> IF steps.raised THEN {PreprocessError} ELSE {}]

\* The except clause of preprocess_data: report, and return the frame as it is.
PreprocessHandler(steps) ==
    [df |-> steps.df,
     raised |-> FALSE,
     errors |-> IF steps.raised THEN {PreprocessError} ELSE {}]

preprocess_data(df, offset) == PreprocessHandler(PreprocessSteps(df, offset))

\* load_state_names: the dictionary code -> name, empty when the file cannot be
\* read.  A later row of the file overrides an earlier one with the same code.
load_state_names(ref) ==
    IF ~ref.readable THEN << >>
    ELSE LET rows == ref.rows
             last(c) == CHOOSE i \in 1..Len(rows) :
                           /\ rows[i].code = c
                           /\ \A j \in (i + 1)..Len(rows) : rows[j].code # c
         IN  [c \in {rows[i].code : i \in 1..Len(rows)} |-> rows[last(c)].name]

\* {v: k for k, v in state_mapping.items()}: of two codes with one name, the one
\* that entered the dictionary later wins.
InvertMapping(ref, mapping) ==
    LET rows == ref.rows
        first(c) == CHOOSE i \in 1..Len(rows) :
                       /\ rows[i].code = c
                       /\ \A j \in 1..(i - 1) : rows[j].code # c
        winner(v) == CHOOSE c \in DOMAIN mapping :
                        /\ mapping[c] = v
                        /\ \A c2 \in DOMAIN mapping :
                              mapping[c2] = v => first(c2) <= first(c)
    IN  [v \in {mapping[c] : c \in DOMAIN mapping} |-> winner(v)]

\* df['STATE'].map(code_to_name), with no fillna after it.
AttachStateNamesNoFill(df, code_to_name) ==
    IF "STATE" \in df.cols /\ DOMAIN code_to_name # {}
    THEN SetCol(df, "STATE_NAME",
                [i \in 1..Len(df.rows) |->
                    LET st == df.rows[i]["STATE"]
                    IN  IF st.k = "str" /\ st.s \in DOMAIN code_to_name
                        THEN Str(code_to_name[st.s]) ELSE NA])
    ELSE df

\* Step 4 of load_and_preprocess_data: map, then fill the gaps with the raw code.
AttachStateNames(df, code_to_name) ==
    IF "STATE" \in df.cols /\ DOMAIN code_to_name # {}
    THEN SetCol(df, "STATE_NAME",
                [i \in 1..Len(df.rows) |->
                    LET st == df.rows[i]["STATE"]
                        mapped == IF st.k = "str" /\ st.s \in DOMAIN code_to_name
                                  THEN Str(code_to_name[st.s]) ELSE NA
                    IN  IF isna(mapped) THEN st ELSE mapped])
    ELSE df

\* The except clause of load_and_preprocess_data, were it to re-raise as
\* load_data does.
GlobalHandlerReraises(errors) ==
    [called |-> TRUE, raised |-> TRUE, df |-> EmptyDataFrame,
     code_to_name |-> << >>, name_to_code |-> << >>,
     errors |-> errors \cup {GlobalError}]

\* The except clause of load_and_preprocess_data.
GlobalHandler(errors) ==
    [called |-> TRUE, raised |-> FALSE, df |-> EmptyDataFrame,
     code_to_name |-> << >>, name_to_code |-> << >>,
     errors |-> errors \cup {GlobalError}]

\* The return of load_and_preprocess_data; a failure of preprocess_data that
\* reached it would end in its except clause.
Returned(pre, code_to_name, name_to_code, refErrors) ==
    IF pre.raised THEN GlobalHandler(refErrors \cup pre.errors)
    ELSE [called |-> TRUE, raised |-> FALSE, df |-> pre.df,
          code_to_name |-> code_to_name, name_to_code |-> name_to_code,
          errors |-> refErrors \cup pre.errors]

\* Steps 3 to 5 of load_and_preprocess_data, given the loaded state mapping.
LoadWith(src, ref, offset, state_mapping) ==
    Returned(preprocess_data(AttachStateNames(src.df, state_mapping), offset),
             state_mapping,
             InvertMapping(ref, state_mapping),
             IF ref.readable THEN {} ELSE {StateNamesError})

\* The pipeline, were it to keep its rows in a module-level frame that every
\* invocation appends to.
Accumulated(fresh) ==
    IF result.called /\ result.df.cols = fresh.df.cols
    THEN [fresh EXCEPT !.df.rows = result.df.rows \o @]
    ELSE fresh

load_and_append(src, ref, offset) ==
    Accumulated(IF ~src.readable THEN GlobalHandler({})
                ELSE LoadWith(src, ref, offset, load_state_names(ref)))

load_and_preprocess_data(src, ref, offset) ==
    IF ~src.readable THEN GlobalHandler({})
    ELSE LoadWith(src, ref, offset, load_state_names(ref))

NotCalled ==
    [called |-> FALSE, raised |-> FALSE, df |-> EmptyDataFrame,
     code_to_name |-> << >>, name_to_code |-> << >>, errors |-> {}]

-----------------------------------------------------------------------------
(* app.py *)

\* a / b rounded to the nearest integer, ties to even (b > 0), as the format
\* specifications .0f, .1f and .2f round.
RoundDiv(a, b) ==
    LET q == a \div b
        r == a - q * b
    IN  IF 2 * r < b THEN q
        ELSE IF 2 * r > b THEN q + 1
        ELSE IF q % 2 = 0 THEN q ELSE q + 1

\* A formatted area: `scaled` is the number printed, in units of 10^-decimals;
\* `grouped` tells the thousands separator; the suffixes "m2" and "km2" stand for
\* the source's "m\u00b2" and "km\u00b2".
Formatted(scaled, decimals, grouped, suffix) ==
    [rendered |-> TRUE, sentinel |-> "", scaled |-> scaled, decimals |-> decimals,
     grouped |-> grouped, suffix |-> suffix]

NotAvailable ==
    [rendered |-> TRUE, sentinel |-> "N/A", scaled |-> 0, decimals |-> 0,
     grouped |-> FALSE, suffix |-> ""]

NotRendered ==
    [rendered |-> FALSE, sentinel |-> "", scaled |-> 0, decimals |-> 0,
     grouped |-> FALSE, suffix |-> ""]

\* format_area with strict comparisons at the two thresholds.
format_area_strict(area_m2) ==
    IF isna(area_m2) THEN NotAvailable
    ELSE IF area_m2.n > 1000000 * area_m2.d
    THEN Formatted(RoundDiv(area_m2.n, area_m2.d * 10000), 2, FALSE, "km2")
    ELSE IF area_m2.n > 10000 * area_m2.d
    THEN Formatted(RoundDiv(area_m2.n, area_m2.d * 1000), 1, FALSE, "ha")
    ELSE Formatted(RoundDiv(area_m2.n, area_m2.d), 0, TRUE, "m2")

format_area(area_m2) ==
    IF isna(area_m2) THEN NotAvailable
    ELSE IF area_m2.n >= 1000000 * area_m2.d
    THEN Formatted(RoundDiv(area_m2.n, area_m2.d * 10000), 2, FALSE, "km2")
    ELSE IF area_m2.n >= 10000 * area_m2.d
    THEN Formatted(RoundDiv(area_m2.n, area_m2.d * 1000), 1, FALSE, "ha")
    ELSE Formatted(RoundDiv(area_m2.n, area_m2.d), 0, TRUE, "m2")


\* The sections of the sidebar's selectbox.
Pages == <<"Apercu des donnees", "Analyse temporelle", "Visualisations BI">>

\* df.empty: no row, or no column.
empty(df) == df.cols = {} \/ Len(df.rows) = 0

\* @st.cache_data, were it to keep only the results that hold records.
HitNonEmpty(memo) == memo.called /\ ~empty(memo.df)

\* @st.cache_data, were the decorator missing: no call finds an entry.
HitNever(memo) == FALSE

\* @st.cache_data: a call finds the entry of an earlier call, if there is one
\* (load_cached_data has no argument, the decorator no ttl and no max_entries).
Hit(memo) == memo.called

\* load_cached_data, given the cache entry: what it returns (and the cache then
\* holds), and how many times it ran the pipeline for it.
load_cached_data(memo) ==
    IF Hit(memo) THEN memo ELSE load_and_preprocess_data(source, reference, tz)
Invoked(memo) == IF Hit(memo) THEN 0 ELSE 1

\* df[df[c].isin(selected)]: a new frame with the rows that match, in order.
RowsWhere(df, c, selected) ==
    [cols |-> df.cols, rows |-> SelectSeq(df.rows, LAMBDA r : r[c] \in selected)]

\* The options of the two multiselects: the years of the base frame, and its
\* state names that are not missing.
YearOptions(df) ==
    IF "FIRE_YEAR" \in df.cols
    THEN {df.rows[i]["FIRE_YEAR"] : i \in 1..Len(df.rows)} ELSE {}
StateOptions(df) ==
    IF "STATE_NAME" \in df.cols /\ Len(df.rows) # 0
    THEN {v \in {df.rows[i]["STATE_NAME"] : i \in 1..Len(df.rows)} : ~isna(v)} ELSE {}

\* The defaults of the multiselects: the last five years, the first ten states
\* (all of them when there are no more than that).
DefaultYearCount == 5
DefaultStateCount == 10
DefaultYears(years) ==
    IF Cardinality(years) > DefaultYearCount
    THEN {y \in years : Cardinality({z \in years : z.n > y.n}) < DefaultYearCount}
    ELSE years
\* Which ten of more than ten states come first in alphabetical order is left open.
DefaultStates(states) ==
    IF Cardinality(states) > DefaultStateCount
    THEN CHOOSE some \in SUBSET states : Cardinality(some) = DefaultStateCount
    ELSE states

\* The year filter: the base frame df and the view df_filtered; without the
\* column, or with nothing selected, the view is the base frame.
YearFilter(df, years) ==
    [df |-> df,
     df_filtered |-> IF "FIRE_YEAR" \in df.cols /\ years # {}
                     THEN RowsWhere(df, "FIRE_YEAR", years) ELSE df]

\* The state filter, were it to assign the filtered rows to df as well.
StateFilterInPlace(frames, states) ==
    IF "STATE_NAME" \in frames.df.cols /\ Len(frames.df.rows) # 0 /\ states # {}
    THEN [df |-> RowsWhere(frames.df_filtered, "STATE_NAME", states),
          df_filtered |-> RowsWhere(frames.df_filtered, "STATE_NAME", states)]
    ELSE frames

\* The state filter: narrows df_filtered when some state is selected.
StateFilter(frames, states) ==
    IF "STATE_NAME" \in frames.df.cols /\ Len(frames.df.rows) # 0 /\ states # {}
    THEN [df |-> frames.df,
          df_filtered |-> RowsWhere(frames.df_filtered, "STATE_NAME", states)]
    ELSE frames

\* The widgets of the sidebar, the refresh button last.
Sidebar(df) ==
    {"page", "refresh"}
        \cup (IF "FIRE_YEAR" \in df.cols THEN {"years"} ELSE {})
        \cup (IF "STATE_NAME" \in df.cols /\ Len(df.rows) # 0 THEN {"states"} ELSE {})

\* Before the first run of the script.
NotRun ==
    [screen |-> "none", controls |-> {}, df |-> EmptyDataFrame,
     df_filtered |-> EmptyDataFrame]

\* st.error("Aucune donnee n'a pu etre chargee") and st.stop(): nothing below runs.
Stopped(df) ==
    [screen |-> "nodata", controls |-> {}, df |-> df, df_filtered |-> EmptyDataFrame]

\* The sidebar and the chosen section, rendered from the frames.
Rendered(frames) ==
    [screen |-> "dashboard", controls |-> Sidebar(frames.df), df |-> frames.df,
     df_filtered |-> frames.df_filtered]

\* The script from the empty check down, given what load_cached_data returned.
Script(loaded, years, states) ==
    IF empty(loaded.df) THEN Stopped(loaded.df)
    ELSE Rendered(StateFilter(YearFilter(loaded.df, years), states))

-----------------------------------------------------------------------------
(* The inputs considered *)

\* The most rows of a table with several rows.
MaxRows == 2
\* How far, in hundredths of a square metre, the areas formatted lie from each
\* threshold.
AreaSpread == 30
\* The most runs of the dashboard script followed.
MaxRuns == 5

days_from_civil(y, m, d) ==
    LET yy  == IF m <= 2 THEN y - 1 ELSE y
        era == yy \div 400
        yoe == yy - era * 400
        doy == (153 * (IF m > 2 THEN m - 3 ELSE m + 9) + 2) \div 5 + d - 1
        doe == yoe * 365 + yoe \div 4 - yoe \div 100 + doy
    IN  era * 146097 + doe - 719468

\* The Julian day number of midnight UTC, and of noon UTC, on day z.
Julian(z) == Rat(2 * (2440587 + z) + 1, 2)
JulianNoon(z) == Num(2440588 + z)

\* 3000-01-01: a date datetime holds and a nanosecond Timestamp does not.
FarFuture == Julian(days_from_civil(3000, 1, 1))
\* A day number past the year 9999.
TooLarge == Num(10000000)

Unreadable == [readable |-> FALSE, df |-> EmptyDataFrame]
Table(df) == [readable |-> TRUE, df |-> df]

RawColumns == {"DISCOVERY_DATE", "CONT_DATE", "FIRE_SIZE", "STATE"}

\* The rows over the columns cols, each column's cells drawn from its samples.
RowSet(cols, D, C, F, S) ==
    {[c \in cols |-> CASE c = "DISCOVERY_DATE" -> a
                      [] c = "CONT_DATE" -> b
                      [] c = "FIRE_SIZE" -> f
                      [] OTHER -> s] :
        a \in (IF "DISCOVERY_DATE" \in cols THEN D ELSE {NA}),
        b \in (IF "CONT_DATE" \in cols THEN C ELSE {NA}),
        f \in (IF "FIRE_SIZE" \in cols THEN F ELSE {NA}),
        s \in (IF "STATE" \in cols THEN S ELSE {NA})}

Tables(n, D, C, F, S) ==
    UNION {{Table([cols |-> cols, rows |-> rows]) :
               rows \in [1..n -> RowSet(cols, D, C, F, S)]} : cols \in SUBSET RawColumns}

NoReference == [readable |-> FALSE, rows |-> << >>]
ReferenceSamples ==
    {NoReference,
     [readable |-> TRUE, rows |-> << >>],
     [readable |-> TRUE, rows |-> <<[code |-> "CA", name |-> "California"]>>],
     [readable |-> TRUE, rows |-> <<[code |-> "CA", name |-> "California"],
                                    [code |-> "TX", name |-> "Texas"]>>]}

\* One row, many encodings: every month of 2020, the durations around the
\* limits 0 and 365, undecodable and out-of-range cells.
RecordDiscovery ==
    {NA, Str("unknown"), TooLarge, FarFuture}
        \cup {Julian(days_from_civil(2020, m, 15)) : m \in 1..12}
RecordCont ==
    {NA, Str("unknown"), FarFuture,
     Julian(days_from_civil(2020, 6, 14)), Julian(days_from_civil(2020, 6, 15)),
     Julian(days_from_civil(2020, 6, 20)), JulianNoon(days_from_civil(2020, 6, 20)),
     Julian(days_from_civil(2021, 6, 15)), Julian(days_from_civil(2021, 6, 16))}
RecordFireSize == {NA, Str("abc"), Num(0), Rat(1, 4), Num(100)}
RecordState == {NA, Str("CA"), Str("ZZ")}
RecordOffsets == {-8, 0, 2}

\* Several rows, few encodings: a cell that decodes and one that makes a step fail.
BatchDiscovery == {Julian(days_from_civil(2020, 6, 15)), FarFuture}
BatchCont == {JulianNoon(days_from_civil(2020, 6, 20)), FarFuture}
BatchFireSize == {Num(100), Str("abc")}
BatchState == {Str("CA")}
BatchReferences ==
    {NoReference, [readable |-> TRUE, rows |-> <<[code |-> "CA", name |-> "California"]>>]}

\* The files behind the dashboard: unreadable, a header without rows, three
\* fires of two years and two states, and the same without one filter column.
Fire(year, state, size) ==
    [c \in {"FIRE_YEAR", "STATE", "FIRE_SIZE"} |->
        CASE c = "FIRE_YEAR" -> year [] c = "STATE" -> state [] OTHER -> size]
Fires ==
    [cols |-> {"FIRE_YEAR", "STATE", "FIRE_SIZE"},
     rows |-> <<Fire(Num(2019), Str("CA"), Num(100)),
                Fire(Num(2020), Str("CA"), Rat(1, 4)),
                Fire(Num(2020), Str("TX"), NA)>>]
AppSources ==
    {Unreadable,
     Table([cols |-> Fires.cols, rows |-> << >>]),
     Table(Fires),
     Table(DropCol(Fires, "FIRE_YEAR")),
     Table(DropCol(Fires, "STATE"))}

Threshold(m2) == {Rat(m2 * 100 + k, 100) : k \in (0 - AreaSpread)..AreaSpread}
AreaSamples ==
    {NA, Num(0), Num(-5), Rat(40468600, 100)} \cup Threshold(10000) \cup Threshold(1000000)

-----------------------------------------------------------------------------
(* The pipeline, run on a source file and on the same file without its
   containment-date column *)

WithoutColumn(src, c) ==
    IF src.readable THEN Table(DropCol(src.df, c)) ELSE src

InitRecord ==
    /\ source \in Tables(1, RecordDiscovery, RecordCont, RecordFireSize, RecordState)
    /\ reference \in ReferenceSamples
    /\ tz \in RecordOffsets

InitBatch ==
    /\ source \in {Unreadable} \cup
           UNION {Tables(n, BatchDiscovery, BatchCont, BatchFireSize, BatchState) :
                     n \in 2..MaxRows}
    /\ reference \in BatchReferences
    /\ tz = 0

\* The dashboard before its first run.
AppIdle ==
    /\ cache = NotCalled
    /\ invocations = 0
    /\ refreshes = 0
    /\ runs = 0
    /\ page = Pages[1]
    /\ selected_years = {}
    /\ selected_states = {}
    /\ view = NotRun

Init ==
    /\ InitRecord \/ InitBatch
    /\ result = NotCalled
    /\ previous = NotCalled
    /\ resultNoCont = NotCalled
    /\ area = NA
    /\ shown = NotRendered
    /\ AppIdle

LoadAndPreprocess ==
    /\ result' = load_and_preprocess_data(source, reference, tz)
    /\ previous' = result
    /\ UNCHANGED <<files, resultNoCont, formatVars, appVars>>

LoadWithoutCont ==
    /\ resultNoCont' = load_and_preprocess_data(WithoutColumn(source, "CONT_DATE"),
                                                 reference, tz)
    /\ UNCHANGED <<files, result, previous, formatVars, appVars>>

Next == LoadAndPreprocess \/ LoadWithoutCont

Spec == Init /\ [][Next]_vars

(* The formatter, applied to an area *)

InitFormat ==
    /\ source = Unreadable
    /\ reference = NoReference
    /\ tz = 0
    /\ result = NotCalled
    /\ previous = NotCalled
    /\ resultNoCont = NotCalled
    /\ area \in AreaSamples
    /\ shown = NotRendered
    /\ AppIdle

FormatArea ==
    /\ shown' = format_area(area)
    /\ UNCHANGED <<files, pipelineVars, area, appVars>>

NextFormat == FormatArea

SpecFormat == InitFormat /\ [][NextFormat]_vars

(* The dashboard: the script runs once when a session opens and once more on
   every interaction with a widget of the sidebar *)

InitApp ==
    /\ source \in AppSources
    /\ reference \in BatchReferences
    /\ tz = 0
    /\ result = NotCalled
    /\ previous = NotCalled
    /\ resultNoCont = NotCalled
    /\ area = NA
    /\ shown = NotRendered
    /\ AppIdle

\* One run of the script, top to bottom, with the cache entry and the widget
\* values it starts from.
Rerun(memo, pg, years, states) ==
    /\ cache' = load_cached_data(memo)
    /\ invocations' = invocations + Invoked(memo)
    /\ runs' = runs + 1
    /\ page' = pg
    /\ selected_years' = years
    /\ selected_states' = states
    /\ view' = Script(load_cached_data(memo), years, states)

\* A browser session opens (or reloads) the page: the widgets take their defaults.
OpenSession ==
    /\ runs < MaxRuns
    /\ Rerun(cache, Pages[1],
             DefaultYears(YearOptions(load_cached_data(cache).df)),
             DefaultStates(StateOptions(load_cached_data(cache).df)))
    /\ UNCHANGED <<files, pipelineVars, formatVars, refreshes>>

SelectPage ==
    /\ runs < MaxRuns
    /\ "page" \in view.controls
    /\ \E i \in DOMAIN Pages : Rerun(cache, Pages[i], selected_years, selected_states)
    /\ UNCHANGED <<files, pipelineVars, formatVars, refreshes>>

SelectYears ==
    /\ runs < MaxRuns
    /\ "years" \in view.controls
    /\ \E years \in SUBSET YearOptions(view.df) :
            Rerun(cache, page, years, selected_states)
    /\ UNCHANGED <<files, pipelineVars, formatVars, refreshes>>

SelectStates ==
    /\ runs < MaxRuns
    /\ "states" \in view.controls
    /\ \E states \in SUBSET StateOptions(view.df) :
            Rerun(cache, page, selected_years, states)
    /\ UNCHANGED <<files, pipelineVars, formatVars, refreshes>>

\* A click on the refresh button: the run it starts reaches the button, which
\* clears the cache and asks for a rerun; the rerun finds the cache empty.
Refresh ==
    /\ runs + 2 <= MaxRuns
    /\ "refresh" \in view.controls
    /\ "refresh" \in Script(load_cached_data(cache), selected_years, selected_states).controls
    /\ cache' = load_cached_data(NotCalled)
    /\ invocations' = invocations + Invoked(cache) + Invoked(NotCalled)
    /\ runs' = runs + 2
    /\ refreshes' = refreshes + 1
    /\ view' = Script(load_cached_data(NotCalled), selected_years, selected_states)
    /\ UNCHANGED <<files, pipelineVars, formatVars, page, selected_years, selected_states>>

NextApp == OpenSession \/ SelectPage \/ SelectYears \/ SelectStates \/ Refresh

SpecApp == InitApp /\ [][NextApp]_vars

-----------------------------------------------------------------------------
(* Properties *)

RowsOf(r) == 1..Len(r.df.rows)

\* The raw cell of column c on row i of the source file (missing without the column).
Raw(i, c) == Field(source.df, i, c)

InTimestampRange(z) == MinTimestampDay <= z /\ z <= MaxTimestampDay

\* A date cell that decodes: a number whose local calendar day both datetime
\* and a nanosecond Timestamp can hold.
Decodable(x) ==
    /\ ~isna(DecodeCell(x, tz))
    /\ InTimestampRange(DecodeCell(x, tz).n)

DateColumns == {"DISCOVERY_DATE", "CONT_DATE"}
Seasons == {"Winter", "Spring", "Summer", "Fall"}

\* C1: for every record of the pipeline output with discovery date d and
\* containment date c, duration_days is absent if either date is absent, absent
\* if c < d, absent if (c - d).days > 365, and otherwise equals (c - d).days;
\* so every duration_days that is present lies in 0..365.
C1_DurationFromDates ==
    result.called =>
        \A i \in RowsOf(result) :
            LET dd == Field(result.df, i, "DATEGREG_DISCOVERY")
                cc == Field(result.df, i, "DATEGREG_CONT")
                dur == Field(result.df, i, "DURATION_DAYS")
            IN  /\ IF isna(dd) \/ isna(cc) THEN isna(dur)
                   ELSE IF cc.n < dd.n THEN isna(dur)
                   ELSE IF cc.n - dd.n > 365 THEN isna(dur)
                   ELSE dur = Num(cc.n - dd.n)
                /\ ~isna(dur) => (dur.k = "num" /\ dur.d = 1 /\ 0 <= dur.n /\ dur.n <= 365)

\* C2: if the state reference table is empty, or could not be loaded, every
\* record of the output that has a raw state code has a state name equal to
\* that code.
C2_EmptyReferenceKeepsRawCodes ==
    (result.called /\ source.readable /\ (~reference.readable \/ reference.rows = << >>)) =>
        \A i \in RowsOf(result) :
            ~isna(Raw(i, "STATE")) => Field(result.df, i, "STATE_NAME") = Raw(i, "STATE")

\* C3, as claimed: if a derivation step of the pipeline fails,
\* load_and_preprocess_data returns an empty record set and empty mappings,
\* never a record set with only some of the steps applied.
C3_FailureYieldsEmptyResult ==
    (result.called /\ PreprocessError \in result.errors) =>
        /\ result.df = EmptyDataFrame
        /\ result.code_to_name = << >>
        /\ result.name_to_code = << >>

\* C3, amended: if a derivation step fails, preprocess_data reports it and the
\* pipeline returns, without raising, every row of the source with its raw
\* columns, the steps before the failure applied and the area conversion not
\* applied, together with the mappings as loaded; the empty record set with
\* empty mappings is returned only when the primary source cannot be read.
C3_FailureYieldsPartialResult ==
    /\ (result.called /\ PreprocessError \in result.errors) =>
            /\ ~result.raised
            /\ GlobalError \notin result.errors
            /\ Len(result.df.rows) = Len(source.df.rows)
            /\ source.df.cols \subseteq result.df.cols
            /\ \A i \in RowsOf(result) : \A c \in source.df.cols :
                    result.df.rows[i][c] = source.df.rows[i][c]
            /\ "FIRE_SIZE_HECTARES" \notin result.df.cols
            /\ DOMAIN result.code_to_name = {reference.rows[j].code : j \in 1..Len(reference.rows)}
            /\ \A j \in 1..Len(reference.rows) :
                    result.name_to_code[reference.rows[j].name] \in DOMAIN result.code_to_name
    /\ (result.called /\ GlobalError \in result.errors) => ~source.readable

\* C3's case: a step failed after others were applied, and the mappings are kept.
C3_Witness ==
    /\ result.called
    /\ PreprocessError \in result.errors
    /\ "MONTH" \in result.df.cols
    /\ "FIRE_SIZE_M2" \notin result.df.cols
    /\ DOMAIN result.code_to_name # {}

\* No date cell decodes to a day outside the Timestamp range: the decode
\* failures left are those julian_to_date and convert_acres_to_m2 meet themselves.
DatesWithinRange ==
    \A i \in 1..Len(source.df.rows) : \A c \in DateColumns :
        isna(DecodeCell(Raw(i, c), tz)) \/ Decodable(Raw(i, c))

\* C4: a decode failure of one field on one record (a bad date encoding, a
\* non-numeric fire size) makes only that derived field absent on that record:
\* every record whose own fire size is a number still has its areas, and every
\* record whose own date decodes still has that date and, for the discovery
\* date, its month and season.  (Stated for the tables whose date cells all lie
\* within the Timestamp range.)
C4_FieldFailureStaysLocal ==
    (result.called /\ source.readable /\ DatesWithinRange) =>
        \A i \in RowsOf(result) :
            /\ Raw(i, "FIRE_SIZE").k = "num" =>
                    /\ ~isna(Field(result.df, i, "FIRE_SIZE_M2"))
                    /\ ~isna(Field(result.df, i, "FIRE_SIZE_HECTARES"))
            /\ Decodable(Raw(i, "DISCOVERY_DATE")) =>
                    /\ IsDate(Field(result.df, i, "DATEGREG_DISCOVERY"))
                    /\ ~isna(Field(result.df, i, "MONTH"))
                    /\ ~isna(Field(result.df, i, "DISCOVERY_SEASON"))
            /\ Decodable(Raw(i, "CONT_DATE")) =>
                    IsDate(Field(result.df, i, "DATEGREG_CONT"))

\* C5: applied column-wise to DISCOVERY_DATE and CONT_DATE, the date decoder
\* turns a missing, malformed or out-of-range cell into an absent date on that
\* row only, and the other rows keep their decoded dates.
C5_DecodeFailureStaysLocal ==
    (result.called /\ source.readable) =>
        \A c \in DateColumns \cap source.df.cols : \A i \in RowsOf(result) :
            IF Decodable(Raw(i, c))
            THEN /\ IsDate(Field(result.df, i, DateColumnOf(c)))
                 /\ Field(result.df, i, DateColumnOf(c)).n = DecodeCell(Raw(i, c), tz).n
            ELSE isna(Field(result.df, i, DateColumnOf(c)))

\* C6: if the primary data source cannot be read, load_and_preprocess_data lets
\* no exception escape and returns an empty record set with empty code_to_name
\* and name_to_code.
C6_UnreadableSourceYieldsEmptyTriple ==
    (result.called /\ ~source.readable) =>
        /\ ~result.raised
        /\ result.df.rows = << >>
        /\ result.df.cols = {}
        /\ result.code_to_name = << >>
        /\ result.name_to_code = << >>

\* C6's case: the pipeline has run on an unreadable source.
C6_Witness == result.called /\ ~source.readable /\ GlobalError \in result.errors

UnrelatedFields ==
    {"DATEGREG_DISCOVERY", "MONTH", "DAY", "DAY_OF_WEEK", "DISCOVERY_SEASON",
     "FIRE_SIZE_M2", "FIRE_SIZE_HECTARES"}

\* C7: without the containment-date column the pipeline does not raise,
\* duration_days is absent on every record, and discovery date, month, day,
\* day_of_week, season, area_m2 and area_hectares are what they are with the
\* column present.
C7_MissingContColumnIsHarmless ==
    (result.called /\ resultNoCont.called /\ source.readable) =>
        /\ ~resultNoCont.raised
        /\ Len(resultNoCont.df.rows) = Len(result.df.rows)
        /\ \A i \in RowsOf(resultNoCont) :
                /\ isna(Field(resultNoCont.df, i, "DURATION_DAYS"))
                /\ \A c \in UnrelatedFields :
                        Field(resultNoCont.df, i, c) = Field(result.df, i, c)

\* C8: with a non-empty reference mapping, a record whose raw state code is
\* present has state_name = code_to_name[STATE] when the code has an entry and
\* state_name = the raw code when it has none; its state_name is never absent.
C8_StateNameResolution ==
    (result.called /\ source.readable /\ DOMAIN result.code_to_name # {}) =>
        \A i \in RowsOf(result) :
            LET st == Raw(i, "STATE")
                name == Field(result.df, i, "STATE_NAME")
            IN  ~isna(st) =>
                    /\ ~isna(name)
                    /\ \A j \in 1..Len(reference.rows) :
                            reference.rows[j].code = st.s =>
                                name = Str(result.code_to_name[st.s])
                    /\ st.s \notin DOMAIN result.code_to_name => name = st

\* C8's case: one record resolved through the mapping, or one that fell back
\* to a raw code the non-empty mapping lacks.
C8_Witness ==
    /\ result.called
    /\ DOMAIN result.code_to_name = {"CA", "TX"}
    /\ \E i \in RowsOf(result) :
            /\ Raw(i, "STATE") = Str("ZZ")
            /\ Field(result.df, i, "STATE_NAME") = Str("ZZ")

\* C9: the season is a function of the discovery month: 12, 1, 2 give Winter,
\* 3, 4, 5 Spring, 6, 7, 8 Summer, 9, 10, 11 Fall; a record's season is absent
\* exactly when its month is, and is never a string outside the four labels.
C9_SeasonOfMonth ==
    result.called =>
        \A i \in RowsOf(result) :
            LET month == Field(result.df, i, "MONTH")
                season == Field(result.df, i, "DISCOVERY_SEASON")
            IN  /\ isna(season) <=> isna(month)
                /\ ~isna(month) =>
                        /\ month.n \in 1..12
                        /\ season.k = "str"
                        /\ season.s \in Seasons
                        /\ month.n \in {12, 1, 2} => season.s = "Winter"
                        /\ month.n \in {3, 4, 5} => season.s = "Spring"
                        /\ month.n \in {6, 7, 8} => season.s = "Summer"
                        /\ month.n \in {9, 10, 11} => season.s = "Fall"

\* C9's case: a December record classified as Winter.
C9_Witness ==
    /\ result.called
    /\ \E i \in RowsOf(result) :
            /\ Field(result.df, i, "MONTH") = Num(12)
            /\ Field(result.df, i, "DISCOVERY_SEASON") = Str("Winter")

IsJulianMidnight(x) == x.k = "num" /\ x.d = 2 /\ x.n % 2 = 1
DaysAfterEpoch(x) == (x.n - 1) \div 2 - 2440587

\* C11: a Julian day value 2440587.5 + n, n a whole number of days, decodes to
\* the calendar date n days after 1970-01-01; the encodings of 2020-06-15 and
\* 2020-06-20 decode to those discovery and containment dates and give
\* duration_days = 5, month = 6 and season Summer.  (Stated for the tables whose
\* date cells all lie within the Timestamp range.)
C11_JulianDecodesToCalendarDate ==
    (result.called /\ source.readable /\ DatesWithinRange) =>
        \A i \in RowsOf(result) :
            /\ \A c \in DateColumns \cap source.df.cols :
                    IsJulianMidnight(Raw(i, c)) =>
                        Field(result.df, i, DateColumnOf(c))
                            = Timestamp(DaysAfterEpoch(Raw(i, c)))
            /\ (/\ Raw(i, "DISCOVERY_DATE") = Julian(days_from_civil(2020, 6, 15))
                /\ Raw(i, "CONT_DATE") = Julian(days_from_civil(2020, 6, 20))) =>
                    /\ Field(result.df, i, "DATEGREG_DISCOVERY")
                            = Timestamp(days_from_civil(2020, 6, 15))
                    /\ Field(result.df, i, "DATEGREG_CONT")
                            = Timestamp(days_from_civil(2020, 6, 20))
                    /\ Field(result.df, i, "DURATION_DAYS") = Num(5)
                    /\ Field(result.df, i, "MONTH") = Num(6)
                    /\ Field(result.df, i, "DISCOVERY_SEASON") = Str("Summer")

C13_ComputedOncePerEpoch ==
    [][/\ invocations' \in {invocations, invocations + 1}
       /\ invocations' # invocations => (~cache.called \/ refreshes' = refreshes + 1)
       /\ (cache.called /\ refreshes' = refreshes) => cache' = cache
       /\ cache'.called => invocations' = refreshes' + 1]_vars

\* C13's case: after one refresh and reruns with another page and a narrowing
\* filter, the pipeline has run exactly twice.
C13_Witness ==
    /\ runs = 5
    /\ refreshes = 1
    /\ invocations = 2
    /\ page = Pages[2]
    /\ Len(view.df_filtered.rows) < Len(view.df.rows)

\* Every row of the view is a row of the frame, in the frame's order.
IsViewOf(filtered, df) ==
    /\ filtered.cols = df.cols
    /\ \E keep \in SUBSET (1..Len(df.rows)) :
            /\ Len(filtered.rows) = Cardinality(keep)
            /\ \A j \in 1..Len(filtered.rows) :
                    filtered.rows[j] =
                        df.rows[CHOOSE i \in keep :
                                    Cardinality({h \in keep : h < i}) = j - 1]

\* C14: after construction the base record set is never altered: whatever the
\* year and state selections made, in whatever order (empty selections
\* included), the base frame of the script has the row count and every field
\* value the pipeline produced, and the filtered frame is a view of its rows.
C14_FiltersLeaveBaseUnchanged ==
    view.screen = "dashboard" =>
        /\ Len(view.df.rows) = Len(load_and_preprocess_data(source, reference, tz).df.rows)
        /\ view.df.cols = load_and_preprocess_data(source, reference, tz).df.cols
        /\ \A i \in 1..Len(view.df.rows) : \A c \in view.df.cols :
                view.df.rows[i][c]
                    = load_and_preprocess_data(source, reference, tz).df.rows[i][c]
        /\ cache.df = view.df
        /\ IsViewOf(view.df_filtered, view.df)

\* C14's case: both filters narrowed the view, each to one selection, and the
\* base frame still has its three rows.
C14_Witness ==
    /\ view.screen = "dashboard"
    /\ Cardinality(selected_years) = 1
    /\ Cardinality(selected_states) = 1
    /\ Len(view.df_filtered.rows) = 1
    /\ Len(view.df.rows) = 3

\* C15: for every record with a present fire size of a acres, area_m2 equals
\* a * 4046.86 and area_hectares equals area_m2 / 10000; for a record whose fire
\* size is missing, both area_m2 and area_hectares are absent.
C15_AreaConversion ==
    (result.called /\ source.readable) =>
        \A i \in RowsOf(result) :
            LET a == Raw(i, "FIRE_SIZE")
                m2 == Field(result.df, i, "FIRE_SIZE_M2")
                ha == Field(result.df, i, "FIRE_SIZE_HECTARES")
            IN  /\ a.k = "num" =>
                    /\ m2 = Rat(a.n * 404686, a.d * 100)
                    /\ ha = Rat(a.n * 404686, a.d * 100 * 10000)
                /\ isna(a) => (isna(m2) /\ isna(ha))

\* C16: an empty result is memoized like any other: once load_cached_data has
\* returned an empty record set, every later rerun shows the no-data error and
\* stops, with the cache entry kept and the pipeline not run again; the refresh
\* button is rendered only when the record set is not empty, so nothing in the
\* dashboard clears the cache in that state.
C16_EmptyResultIsMemoized ==
    /\ [](("refresh" \in view.controls) => ~empty(view.df))
    /\ []((cache.called /\ empty(cache.df)) => (view.screen = "nodata" /\ view.controls = {}))
    /\ [][(cache.called /\ empty(cache.df)) =>
            /\ cache' = cache
            /\ invocations' = invocations
            /\ refreshes' = refreshes
            /\ view'.screen = "nodata"
            /\ view'.controls = {}]_vars

\* C16's case: the load failed, and the script has run again since, still with
\* the one invocation of the pipeline.
C16_Witness ==
    /\ ~source.readable
    /\ cache.called
    /\ GlobalError \in cache.errors
    /\ empty(cache.df)
    /\ runs >= 3
    /\ invocations = 1
    /\ view.screen = "nodata"

====
